---- MODULE Spec2Model ----
(***************************************************************************)
(* A model of the pseudo-spectral 2D vorticity solver of src/src/fluid.py  *)
(* (class Fluid).                                                          *)
(*                                                                         *)
(* Numbers.  The arrays of the solver hold float64 / complex128 values.    *)
(* Here every array entry is computed in exact arithmetic in the finite    *)
(* field F_P (reals) and F_P[i] (complex numbers, pairs <<re, im>>) with   *)
(* P = 11.  In F_11 the numbers 2, 3, nx*ny, mx*my and every non-zero k2   *)
(* of the 4 x 4 grid are invertible, -1 is no square (so i is a proper     *)
(* extension and conjugation / real part are defined), and 3 is a square   *)
(* (so the 4th and the 6th roots of unity needed by the 4 x 4 transform    *)
(* and by the 6 x 6 padded transform exist).  Every +, -, *, / of the code *)
(* is the field operation; abs and max, which need an order, are taken on  *)
(* the balanced representative -5..5.  The scalars dt and time are fixed   *)
(* point integers in units of 1e-4 (the constructor's dt = 0.0001 is 1).   *)
(*                                                                         *)
(* Three specifications.  Spec runs the solver on the 4 x 4 grid with      *)
(* values: init_solver(), init_field(...), then update(s) and the          *)
(* diagnostics in any order.  FieldSpec calls init_solver, init_field,     *)
(* update(1) and the two transforms in any order.  ShapeSpec runs the      *)
(* constructor, init_solver, init_field and update on every grid nx, ny in *)
(* MinN..MaxN with array shapes only.                                      *)
(***************************************************************************)
EXTENDS Integers, Sequences, FiniteSets, TLC

(***************************************************************************)
(* The number domain                                                       *)
(***************************************************************************)
P == 11

F(n) == n % P

Neg(a) == (P - a) % P

\* (f @@ <<>> is f, as a table that is computed once)
InvTab == [a \in 1..(P - 1) |-> CHOOSE x \in 1..(P - 1) : (a * x) % P = 1] @@ <<>>

Inv(a) == InvTab[a % P]

Div(a, b) == (a * Inv(b)) % P

Half == Inv(2)

Sqrt3 == CHOOSE x \in 0..(P - 1) : (x * x) % P = 3

\* |a| on the balanced representative of a
AbsF(a) == IF a <= P \div 2 THEN a ELSE P - a

CZero == <<0, 0>>

CReal(a) == <<a % P, 0>>

CAdd(a, b) == <<(a[1] + b[1]) % P, (a[2] + b[2]) % P>>

CSub(a, b) == <<(a[1] + P - b[1]) % P, (a[2] + P - b[2]) % P>>

CMul(a, b) == <<(a[1] * b[1] + (P - a[2]) * b[2]) % P, (a[1] * b[2] + a[2] * b[1]) % P>>

CScale(r, a) == <<(r * a[1]) % P, (r * a[2]) % P>>

CConj(a) == <<a[1], Neg(a[2])>>

\* 1j * a
CTimesJ(a) == <<Neg(a[2]), a[1]>>

\* abs(a)**2
CAbs2(a) == (a[1] * a[1] + a[2] * a[2]) % P

\* exp(2 pi i / 12) = cos(pi/6) + i sin(pi/6)
Zeta12 == <<(Sqrt3 * Half) % P, Half>>

RECURSIVE CPow(_, _)
CPow(a, e) == IF e = 0 THEN <<1, 0>> ELSE CMul(a, CPow(a, e - 1))

Z12 == [e \in 0..11 |-> CPow(Zeta12, e)] @@ <<>>

\* exp(2 pi i e / n), for n a divisor of 12
Root(n, e) == Z12[((12 \div n) * (e % n)) % 12]

RECURSIVE RSum(_, _)
RSum(f, n) == IF n = 0 THEN 0 ELSE (f[n - 1] + RSum(f, n - 1)) % P

RECURSIVE CSum(_, _)
CSum(f, n) == IF n = 0 THEN CZero ELSE CAdd(f[n - 1], CSum(f, n - 1))

\* an array as an explicit value: its entries are computed once, when it is built
Mat(f) == [i \in DOMAIN f |-> f[i] @@ <<>>] @@ <<>>

Rows(a) == Cardinality(DOMAIN a)

Cols(a) == Cardinality(DOMAIN a[0])

Shape(a) == <<Rows(a), Cols(a)>>

(***************************************************************************)
(* numpy.fft: the real-input 2D transform pair                             *)
(***************************************************************************)
\* np.fft.rfft2(a): real (n, m) -> complex (n, m//2 + 1)
Rfft2(a) ==
    LET n == Rows(a)
        m == Cols(a)
        K == m \div 2 + 1
        \* rfft over the last axis
        Z == Mat([i \in 0..(n - 1) |-> [b \in 0..(K - 1) |->
                CSum([j \in 0..(m - 1) |-> CScale(a[i][j], Root(m, m - ((b * j) % m)))], m)]])
    IN  \* fft over the first axis
        Mat([c \in 0..(n - 1) |-> [b \in 0..(K - 1) |->
            CSum([i \in 0..(n - 1) |-> CMul(Z[i][b], Root(n, n - ((c * i) % n)))], n)]])

\* np.fft.irfft2(A): complex (n, K) -> real (n, 2*(K - 1)); the imaginary part of
\* the first and of the last column is discarded by the complex-to-real transform
Irfft2(A) ==
    LET n == Rows(A)
        K == Cols(A)
        m == 2 * (K - 1)
        \* ifft over the first axis
        Y == Mat([i \in 0..(n - 1) |-> [b \in 0..(K - 1) |->
                CScale(Inv(n), CSum([c \in 0..(n - 1) |-> CMul(A[c][b], Root(n, c * i))], n))]])
    IN  \* irfft over the last axis, output length m
        Mat([i \in 0..(n - 1) |-> [j \in 0..(m - 1) |->
            Div( ( Y[i][0][1]
                 + (IF j % 2 = 0 THEN Y[i][K - 1][1] ELSE Neg(Y[i][K - 1][1]))
                 + 2 * RSum([b \in 0..(K - 1) |->
                        IF b = 0 \/ b = K - 1 THEN 0 ELSE CMul(Y[i][b], Root(m, b * j))[1]], K)
                 ) % P, m)]])

(***************************************************************************)
(* Parameters and bounds                                                   *)
(***************************************************************************)
\* Fluid(nx, ny, Re): the grid of Spec (nx = ny = GridN)
GridN == 4

\* pad = 3./2.
PadNum == 3

PadDen == 2

\* one unit of the fixed point scalars is 1 / FxScale
FxScale == 10000

\* dt = 0.0001
DtDefault == 1

\* np.sqrt(3.), delta = 0.005, sigma = 15./np.pi, filterfac = 23.6 * (1 - 0.65)**4
\* and exp(-filterfac * (sqrt(2) - 0.65)**4), in units of 1 / FxScale
Sqrt3Fx == 17320

DeltaFx == 50

SigmaFx == 47746

Filter1Fx == 7018

Filter2Fx == 3

\* cphi = 0.65 * max(kx), in hundredths
CphiPct == 65

\* update(self, s=3)
DefaultS == 3

\* _compute_spectrum(200)
DefaultRes == 200

\* Spec: update() is called while it < MaxIt
MaxIt == 2

\* FieldSpec: at most MaxField calls of init_field, and update(1) while it < MaxStep
MaxField == 1

MaxStep == 1

\* ShapeSpec: grids nx, ny in MinN..MaxN
MinN == 4

MaxN == 9

\* an attribute that does not exist (yet)
None == <<>>

FxToF(d) == Div(F(d), F(FxScale))

(***************************************************************************)
(* The grid: Fluid.__init__                                                *)
(***************************************************************************)
NK(m) == m \div 2 + 1

\* np.fft.fftfreq(n) * n
Fftfreq(n) == [i \in 0..(n - 1) |-> IF i <= (n - 1) \div 2 THEN i ELSE i - n]

Min2(a, b) == IF a <= b THEN a ELSE b

\* np.zeros((n, m)) of reals and of complex numbers
RZeros(n, m) == Mat([i \in 0..(n - 1) |-> [j \in 0..(m - 1) |-> 0]])

CZeros(n, m) == Mat([i \in 0..(n - 1) |-> [j \in 0..(m - 1) |-> CZero]])

\* np.empty((n, m)): what the allocation can hold
EmptyPool(n, m) ==
    { RZeros(n, m), Mat([i \in 0..(n - 1) |-> [j \in 0..(m - 1) |-> (1 + i + 3 * j) % P]]) }

\* cos(kap * x[j]) for x = np.linspace(0, 2*pi, n, endpoint=False)
CosGrid(n, kap, j) == Root(n, kap * j)[1]

\* self.k2 = self.kx[:self.nk]**2 + self.ky[:,np.newaxis]**2 (integers)
K2(n, m) ==
    LET kx == Fftfreq(n)
        ky == Fftfreq(m)
    IN  Mat([i \in 0..(m - 1) |-> [j \in 0..(Min2(NK(m), n) - 1) |->
            kx[j] * kx[j] + ky[i] * ky[i]]])

\* self.fk = self.k2 != 0.0
Fk(k2a, i, j) == k2a[i][j] # 0

VARIABLES nx, ny, Re, dt, time, it, u, v, w, w0, k2, wh, psih, dwhdt, pads, fltr,
          nfield, last, shape

vars == <<nx, ny, Re, dt, time, it, u, v, w, w0, k2, wh, psih, dwhdt, pads, fltr,
          nfield, last, shape>>

nk == NK(ny)

\* self.ReI = 0.; if self.Re != 0.: self.ReI = 1./self.Re
ReI == IF Re # 0 THEN Inv(Re) ELSE 0

\* the last call: its name, argument, outcome ("ok" or the exception raised), return
\* value, and the values on entry of the fields the call goes on to replace
Call(op, arg, outcome, ret, pre) ==
    [op |-> op, arg |-> arg, outcome |-> outcome, ret |-> ret, pre |-> pre]

\* Fluid(GridN, GridN, Re) for Re in rePool
Constructed(rePool) ==
    /\ nx = GridN
    /\ ny = GridN
    /\ Re \in rePool
    /\ dt = DtDefault
    /\ time = 0
    /\ it = 0
    /\ u = RZeros(GridN, GridN)
    /\ v = RZeros(GridN, GridN)
    /\ w \in EmptyPool(GridN, GridN)
    /\ w0 = RZeros(GridN, NK(GridN))
    /\ k2 = None
    /\ wh = None
    /\ psih = None
    /\ dwhdt = None
    /\ pads = None
    /\ fltr = None
    /\ nfield = 0
    /\ last = Call("__init__", None, "ok", None, None)
    /\ shape = None

(***************************************************************************)
(* init_solver                                                             *)
(***************************************************************************)
\* self.padder = np.ones(self.mx); self.padder[int(nx/2):int(nx*(pad-0.5))] = False
Padder(n, mx) ==
    [r \in 0..(mx - 1) |->
        ~(r >= n \div 2 /\ r < (n * (2 * PadNum - PadDen)) \div (2 * PadDen))]

\* self.mx, self.mk, self.my and self.padder
Pads(n, m) ==
    [mx |-> (PadNum * n) \div PadDen,
     mk |-> (PadNum * NK(m)) \div PadDen,
     my |-> (PadNum * NK(m)) \div PadDen,
     padder |-> Padder(n, (PadNum * n) \div PadDen)]

\* _init_filter: exp(-filterfac*(sqrt(k2) - cphi)**4.), and 1 where sqrt(k2) <= cphi;
\* the values of exp are those of the grid with max(kx) = 1
InitFilter(k2a, maxkx) ==
    Mat([i \in DOMAIN k2a |-> [j \in DOMAIN k2a[i] |->
        IF 10000 * k2a[i][j] <= CphiPct * CphiPct * maxkx * maxkx THEN 1
        ELSE IF k2a[i][j] = 1 THEN FxToF(Filter1Fx)
        ELSE IF k2a[i][j] = 2 THEN FxToF(Filter2Fx)
        ELSE 0]])

MaxKx(n) == (n - 1) \div 2

init_solver(enabled) ==
    /\ enabled
    /\ \E k2a \in {IF k2 = None THEN K2(nx, ny) ELSE k2} :
        /\ k2' = k2a
        /\ fltr' = IF fltr = None THEN InitFilter(k2a, MaxKx(nx)) ELSE fltr
    /\ wh' = CZeros(nx, nk)
    /\ psih' = CZeros(nx, nk)
    /\ dwhdt' = CZeros(nx, nk)
    /\ pads' = Pads(nx, ny)
    /\ w0' = w
    /\ last' = Call("init_solver", None, "ok", None, None)
    /\ UNCHANGED <<nx, ny, Re, dt, time, it, u, v, w, nfield, shape>>

(***************************************************************************)
(* init_field                                                              *)
(***************************************************************************)
\* self.wh = np.fft.rfft2(self.w, axes=(-2,-1))
W_to_wh(a) == Rfft2(a)

\* self.w = np.fft.irfft2(self.wh, axes=(-2,-1))
Wh_to_w(A) == Irfft2(A)

\* 2 * kappa * cos(kappa * x) * cos(kappa * y[:, newaxis]) * exp(-2 * kappa**2 * t / Re)
\* at t = 0.0: rows run over y, columns over x
TaylorGreen(n, m, kappa) ==
    Mat([i \in 0..(m - 1) |-> [j \in 0..(n - 1) |->
        (2 * kappa * CosGrid(n, kappa, j) * CosGrid(m, kappa, i)) % P]])

\* cosh(sigma * a)**(-2) for sigma = 15/pi and a = pi * num / (2 * m): 1 at a = 0,
\* below 2e-6 (0 in fixed point) at the other points of the grid
Sech2Fx(num, m) == IF num = 0 THEN FxScale ELSE 0

\* delta*cos(x) - sigma*cosh(sigma*(y - 0.5*pi))**(-2), then
\* += delta*cos(x) + sigma*cosh(sigma*(1.5*pi - y))**(-2), with y[i] = 2*pi*i/m
ShearLayer(n, m) ==
    LET d == FxToF(DeltaFx)
        sg == FxToF(SigmaFx)
        first == Mat([i \in 0..(m - 1) |-> [j \in 0..(n - 1) |->
                    (d * CosGrid(n, 1, j)
                     + Neg((sg * FxToF(Sech2Fx(4 * i - m, m))) % P)) % P]])
    IN  Mat([i \in 0..(m - 1) |-> [j \in 0..(n - 1) |->
            (first[i][j] + d * CosGrid(n, 1, j)
             + sg * FxToF(Sech2Fx(3 * m - 4 * i, m))) % P]])

\* psi.mean()
Mean(a) == Div(RSum([i \in DOMAIN a |-> RSum(a[i], Cols(a))], Rows(a)), Rows(a) * Cols(a))

\* np.random.randn(nx, nk)*ck + 1j*np.random.randn(nx, nk)*ck: ck is zero at the
\* zero wavenumber; two realizations
RandPool(k2a) ==
    { Mat([i \in DOMAIN k2a |-> [j \in DOMAIN k2a[i] |->
          IF i = 1 /\ j = 1 THEN <<1, 0>> ELSE CZero]]),
      Mat([i \in DOMAIN k2a |-> [j \in DOMAIN k2a[i] |->
          IF k2a[i][j] = 0 THEN CZero ELSE <<(1 + i + j) % P, (2 * i + j) % P>>]]) }

\* 1 / np.sqrt(KEaux): a positive real
NormPool == {1, 3}

\* McWilliams1984, after the random draw r and with c = 1/sqrt(KEaux)
McWilliams1984(k2a, r, c) ==
    LET psi0 == Irfft2(r)
        mean == Mean(psi0)
        psihm == Rfft2(Mat([i \in DOMAIN psi0 |-> [j \in DOMAIN psi0[i] |->
                          (psi0[i][j] + P - mean) % P]]))
        whm == Mat([i \in DOMAIN k2a |-> [j \in DOMAIN k2a[i] |->
                  CScale(F(k2a[i][j]) * c, psihm[i][j])]])
    IN  Irfft2(whm)

\* the arrays a caller passes: of the grid's shape, and of another shape
MeanArray == Mat([i \in 0..3 |-> [j \in 0..3 |-> (i * j + 2) % P]])

EyeArray == Mat([i \in 0..3 |-> [j \in 0..3 |-> IF i = j THEN 1 ELSE 0]])

SmallArray == Mat([i \in 0..1 |-> [j \in 0..1 |-> 1 + i]])

WideArray == Mat([i \in 0..3 |-> [j \in 0..2 |-> 2 * j]])

ArrayPool == {MeanArray, EyeArray, SmallArray, WideArray}

KnownNames == {"TG", "Taylor-Green", "SL", "Shear Layer", "McWilliams", "MW84"}

\* what init_field is called with: a str (with kappa), an ndarray, or an object of
\* another type (tests/test_solver.py passes a function)
FieldInputs ==
    [type : {"str"}, name : {"TG", "Taylor-Green"}, kappa : {1, 2}, array : {None}]
    \cup [type : {"str"}, name : (KnownNames \ {"TG", "Taylor-Green"}) \cup {"Kolmogorov", ""},
          kappa : {2}, array : {None}]
    \cup [type : {"ndarray"}, name : {""}, kappa : {2}, array : ArrayPool]
    \cup [type : {"function"}, name : {""}, kappa : {2}, array : {None}]

\* one input of each kind: the three named fields, an unknown name, an array of the
\* grid's shape and one of another shape, and an object of another type
FieldKinds ==
    { f \in FieldInputs :
        \/ f.type = "str" /\ f.name \in {"TG", "SL", "MW84", "Kolmogorov"} /\ f.kappa = 2
        \/ f.type = "ndarray" /\ f.array \in {MeanArray, SmallArray}
        \/ f.type = "function" }

\* lines 103-121: the exception raised, or the w and k2 the branch leaves
FieldBranch(f, r, c) ==
    IF f.type = "str" THEN
        IF f.name \in {"TG", "Taylor-Green"} THEN
            IF Re = 0 THEN [raise |-> "ZeroDivisionError", w |-> w, k2 |-> k2]
            ELSE [raise |-> "", w |-> TaylorGreen(nx, ny, f.kappa), k2 |-> k2]
        ELSE IF f.name \in {"SL", "Shear Layer"} THEN
            [raise |-> "", w |-> ShearLayer(nx, ny), k2 |-> k2]
        ELSE IF f.name \in {"McWilliams", "MW84"} THEN
            IF fltr = None THEN [raise |-> "AttributeError", w |-> w, k2 |-> K2(nx, ny)]
            ELSE [raise |-> "", w |-> McWilliams1984(K2(nx, ny), r, c), k2 |-> K2(nx, ny)]
        ELSE \* "..." % field, with no conversion in the string
            [raise |-> "TypeError", w |-> w, k2 |-> k2]
    ELSE IF f.type = "ndarray" THEN
        IF Shape(f.array) = <<nx, ny>> THEN [raise |-> "", w |-> f.array, k2 |-> k2]
        ELSE [raise |-> "", w |-> w, k2 |-> k2]
    ELSE [raise |-> "", w |-> w, k2 |-> k2]

IsMcWilliams(f) == f.type = "str" /\ f.name \in {"McWilliams", "MW84"}

\* (a variant that transforms only when a branch has replaced w)
WhAfterFieldWhenSet(b, wA, whA) ==
    IF b.raise = "" /\ b.w # wA THEN W_to_wh(b.w) ELSE whA

\* line 123: self.w_to_wh() runs whenever no branch has raised
WhAfterField(b, wA, whA) ==
    IF b.raise = "" THEN W_to_wh(b.w) ELSE whA

init_field(enabled, counted, inputs) ==
    /\ enabled
    /\ \E f \in inputs :
       \E r \in IF IsMcWilliams(f) THEN RandPool(K2(nx, ny)) ELSE {None} :
       \E c \in IF IsMcWilliams(f) THEN NormPool ELSE {1} :
       \E b \in {FieldBranch(f, r, c)} :
       \E wh1 \in {WhAfterField(b, w, wh)} :
        /\ w' = b.w
        /\ k2' = b.k2
        /\ wh' = wh1
        /\ last' = Call("init_field", f, IF b.raise = "" THEN "ok" ELSE b.raise, None,
                        [psih |-> psih, wh |-> wh])
    /\ nfield' = counted
    /\ UNCHANGED <<nx, ny, Re, dt, time, it, u, v, w0, psih, dwhdt, pads, fltr, shape>>

(***************************************************************************)
(* update and the operators it calls                                       *)
(***************************************************************************)
\* (a variant that divides by k2 with its zero entry replaced by 1)
GetPsihUnmasked(psihA, whA, k2a) ==
    Mat([i \in DOMAIN psihA |-> [j \in DOMAIN psihA[i] |->
        IF Fk(k2a, i, j) THEN CScale(Inv(k2a[i][j]), whA[i][j]) ELSE whA[i][j]]])

\* _get_psih: self.psih[self.fk] = self.wh[self.fk] / self.k2[self.fk]
GetPsih(psihA, whA, k2a) ==
    Mat([i \in DOMAIN psihA |-> [j \in DOMAIN psihA[i] |->
        IF Fk(k2a, i, j) THEN CScale(Inv(k2a[i][j]), whA[i][j]) ELSE psihA[i][j]]])

\* the number of True entries of padder before row r, and the row of the i-th True
Rank(padder, r) == Cardinality({q \in DOMAIN padder : q < r /\ padder[q]})

RowAt(padder, i) == CHOOSE r \in DOMAIN padder : padder[r] /\ Rank(padder, r) = i

\* jf_padded = np.zeros((mx, mk)); jf_padded[self.padder, :self.nk] = src
PadSpectrum(src, pd) ==
    Mat([r \in 0..(pd.mx - 1) |-> [c \in 0..(pd.mk - 1) |->
        IF pd.padder[r] /\ c < Cols(src) THEN src[Rank(pd.padder, r)][c] ELSE CZero]])

\* 1.0j * self.kx[:self.nk] * a and 1.0j * self.ky[:, np.newaxis] * a
DerivLastAxis(a) ==
    Mat([i \in DOMAIN a |-> [j \in DOMAIN a[i] |-> CTimesJ(CScale(F(Fftfreq(nx)[j]), a[i][j]))]])

DerivFirstAxis(a) ==
    Mat([i \in DOMAIN a |-> [j \in DOMAIN a[i] |-> CTimesJ(CScale(F(Fftfreq(ny)[i]), a[i][j]))]])

\* self.pad**(2)
Pad2 == Div(PadNum * PadNum, PadDen * PadDen)

\* (a variant that adds the product to dwhdt: self.dwhdt += ...)
AddConvectionAccumulating(dwhdtA, psihA, whA, pd) ==
    LET j1 == Irfft2(PadSpectrum(DerivLastAxis(psihA), pd))
        j2 == Irfft2(PadSpectrum(DerivFirstAxis(whA), pd))
        j3 == Irfft2(PadSpectrum(DerivFirstAxis(psihA), pd))
        j4 == Irfft2(PadSpectrum(DerivLastAxis(whA), pd))
        jacpf == Rfft2(Mat([i \in DOMAIN j1 |-> [j \in DOMAIN j1[i] |->
                    (j1[i][j] * j2[i][j] + P * P - j3[i][j] * j4[i][j]) % P]]))
    IN  Mat([i \in DOMAIN dwhdtA |-> [j \in DOMAIN dwhdtA[i] |->
            CAdd(dwhdtA[i][j], CScale(Pad2, jacpf[RowAt(pd.padder, i)][j]))]])

\* _add_convection: self.dwhdt[:, :] = jacpf[self.padder, :self.nk]*self.pad**(2)
AddConvection(dwhdtA, psihA, whA, pd) ==
    LET j1 == Irfft2(PadSpectrum(DerivLastAxis(psihA), pd))
        j2 == Irfft2(PadSpectrum(DerivFirstAxis(whA), pd))
        j3 == Irfft2(PadSpectrum(DerivFirstAxis(psihA), pd))
        j4 == Irfft2(PadSpectrum(DerivLastAxis(whA), pd))
        jacpf == Rfft2(Mat([i \in DOMAIN j1 |-> [j \in DOMAIN j1[i] |->
                    (j1[i][j] * j2[i][j] + P * P - j3[i][j] * j4[i][j]) % P]]))
    IN  Mat([i \in DOMAIN dwhdtA |-> [j \in DOMAIN dwhdtA[i] |->
            CScale(Pad2, jacpf[RowAt(pd.padder, i)][j])]])

\* _add_diffusion: self.dwhdt -= self.ReI*self.k2*self.wh
AddDiffusion(dwhdtA, whA, k2a) ==
    Mat([i \in DOMAIN dwhdtA |-> [j \in DOMAIN dwhdtA[i] |->
        CSub(dwhdtA[i][j], CScale(ReI * F(k2a[i][j]), whA[i][j]))]])

\* _add_spec_filter: self.dwhdt *= self.fltr
AddSpecFilter(dwhdtA, fltrA) ==
    Mat([i \in DOMAIN dwhdtA |-> [j \in DOMAIN dwhdtA[i] |-> CScale(fltrA[i][j], dwhdtA[i][j])]])

\* self.wh = self.w0 + (self.dt/k) * self.dwhdt
StepInTime(w0A, dtA, k, dwhdtA) ==
    Mat([i \in DOMAIN w0A |-> [j \in DOMAIN w0A[i] |->
        CAdd(w0A[i][j], CScale(Div(FxToF(dtA), k), dwhdtA[i][j]))]])

\* (a variant that inverts the new wh again at the end of the substage)
SubstageRefreshing(st, k) ==
    LET p1 == GetPsih(st.psih, st.wh, k2)
        d1 == AddConvection(st.dwhdt, p1, st.wh, pads)
        d2 == AddDiffusion(d1, st.wh, k2)
        w1 == StepInTime(st.w0, dt, k, d2)
    IN  [wh |-> w1, psih |-> GetPsih(p1, w1, k2), dwhdt |-> d2, w0 |-> st.w0]

\* the body of the loop of update: lines 220-231
Substage(st, k) ==
    LET p1 == GetPsih(st.psih, st.wh, k2)
        d1 == AddConvection(st.dwhdt, p1, st.wh, pads)
        d2 == AddDiffusion(d1, st.wh, k2)
    IN  [wh |-> StepInTime(st.w0, dt, k, d2), psih |-> p1, dwhdt |-> d2, w0 |-> st.w0]

\* for k in range(s, 0, -1)
RECURSIVE Stages(_, _)
Stages(st, k) == IF k = 0 THEN st ELSE Stages(Substage(st, k), k - 1)

\* get_u: self.u = np.fft.irfft2(1j*self.ky[:,np.newaxis]*self.psih)
GetU(psihA) == Irfft2(DerivFirstAxis(psihA))

\* get_v: self.v = -np.fft.irfft2(1j*self.kx[:self.nk]*self.psih)
GetV(psihA) ==
    LET a == Irfft2(DerivLastAxis(psihA))
    IN  Mat([i \in DOMAIN a |-> [j \in DOMAIN a[i] |-> Neg(a[i][j])]])

RECURSIVE MaxOf(_)
MaxOf(S) ==
    IF Cardinality(S) = 1 THEN CHOOSE x \in S : TRUE
    ELSE LET x == CHOOSE y \in S : TRUE
             r == MaxOf(S \ {x})
         IN  IF x >= r THEN x ELSE r

\* _cfl_limit, after get_u and get_v: with dx = 2*pi/nx and dy = 2*pi/ny,
\* Dc = max((1+|u|)*nx/2 + (1+|v|)*ny/2), Dmu = nx**2/4 + ny**2/4, dt = sqrt(3)/(Dc + Dmu)
CflDt(uA, vA) ==
    LET Dc2 == MaxOf({ (1 + AbsF(uA[i][j])) * nx + (1 + AbsF(vA[i][j])) * ny :
                        i \in DOMAIN uA, j \in DOMAIN uA[0] })
    IN  (4 * Sqrt3Fx) \div (2 * Dc2 + nx * nx + ny * ny)

\* (a variant that advances time after _cfl_limit has replaced dt)
TimeAfterCfl(timeA, dtEntry, dtNew) == timeA + dtNew

\* self.time += self.dt, before _cfl_limit() replaces dt by dtNew
TimeAfter(timeA, dtEntry, dtNew) == timeA + dtEntry

\* self.it += 1
ItAfter(itA) == itA + 1

update(maxIt, orders) ==
    /\ it < maxIt
    /\ \E s \in orders :
        IF wh = None THEN
            /\ last' = Call("update", s, "AttributeError", None, None)
            /\ UNCHANGED <<w0, wh, psih, dwhdt, time, it, u, v, dt>>
        ELSE IF psih = None THEN
            /\ w0' = wh
            /\ last' = Call("update", s, "AttributeError", None, None)
            /\ UNCHANGED <<wh, psih, dwhdt, time, it, u, v, dt>>
        ELSE
            \E st \in {Stages([wh |-> wh, psih |-> psih, dwhdt |-> dwhdt, w0 |-> wh], s)} :
            \E u1 \in {GetU(st.psih)}, v1 \in {GetV(st.psih)} :
            \E dt1 \in {CflDt(u1, v1)} :
                /\ w0' = st.w0
                /\ wh' = st.wh
                /\ psih' = st.psih
                /\ dwhdt' = st.dwhdt
                /\ u' = u1
                /\ v' = v1
                /\ dt' = dt1
                /\ time' = TimeAfter(time, dt, dt1)
                /\ it' = ItAfter(it)
                /\ last' = Call("update", s, "ok", None,
                                [wh |-> wh, dt |-> dt, time |-> time, it |-> it])
    /\ UNCHANGED <<nx, ny, Re, w, k2, pads, fltr, nfield, shape>>

(***************************************************************************)
(* Diagnostics and transforms                                              *)
(***************************************************************************)
\* _spec_variance(ph) for ph = np.sqrt(self.k2) * psihA, where abs(ph)**2 is
\* k2 * abs(psihA)**2; the first and the last column count half
SpecVarianceOfSqrtK2(k2a, psihA) ==
    LET last_ == Cols(psihA) - 1
        dens == [i \in DOMAIN psihA |-> [j \in DOMAIN psihA[i] |->
                   LET d == Div(2 * F(k2a[i][j]) * CAbs2(psihA[i][j]), (nx * ny) * (nx * ny))
                       d0 == IF j = 0 THEN Div(d, 2) ELSE d
                   IN  IF j = last_ THEN Div(d0, 2) ELSE d0]]
    IN  RSum([i \in DOMAIN psihA |-> RSum(dens[i], Cols(psihA))], Rows(psihA))

\* tke(): .5 * self._spec_variance(np.sqrt(self.k2) * self.psih)
Tke(k2a, psihA) == (Half * SpecVarianceOfSqrtK2(k2a, psihA)) % P

tke ==
    /\ IF k2 = None \/ psih = None THEN last' = Call("tke", None, "AttributeError", None, None)
       ELSE last' = Call("tke", None, "ok", Tke(k2, psih), [psih |-> psih])
    /\ UNCHANGED <<nx, ny, Re, dt, time, it, u, v, w, w0, k2, wh, psih, dwhdt, pads, fltr,
                   nfield, shape>>

\* _compute_spectrum after _get_psih: self.k = np.arange(1, nk), dk = (max(k) - min(k))/res,
\* E[i] = sum of tke over the modes with k[i] - dk <= sqrt(k2) < k[i] + dk
Spectrum(k2a, psihA, res) ==
    LET span == (Cols(psihA) - 1) - 1
        InBin(q, kk) ==
            /\ q * res * res < (kk * res + span) * (kk * res + span)
            /\ (kk * res - span <= 0 \/ q * res * res >= (kk * res - span) * (kk * res - span))
        tkeA == [i \in DOMAIN psihA |-> [j \in DOMAIN psihA[i] |->
                    (Half * F(k2a[i][j]) * CMul(psihA[i][j], CConj(psihA[i][j]))[1]) % P]]
    IN  [kk \in 1..(Cols(psihA) - 1) |->
            RSum([i \in DOMAIN psihA |->
                    RSum([j \in DOMAIN psihA[i] |->
                            IF InBin(k2a[i][j], kk) THEN tkeA[i][j] ELSE 0], Cols(psihA))],
                 Rows(psihA))]

\* self.k and self.E are written here only, and read by plot_spec only: they are
\* carried as the call's result
compute_spectrum ==
    /\ IF wh = None \/ psih = None THEN
            /\ last' = Call("_compute_spectrum", DefaultRes, "AttributeError", None, None)
            /\ UNCHANGED psih
       ELSE \E p1 \in {GetPsih(psih, wh, k2)} :
            /\ psih' = p1
            /\ last' = Call("_compute_spectrum", DefaultRes, "ok",
                            Spectrum(k2, p1, DefaultRes), None)
    /\ UNCHANGED <<nx, ny, Re, dt, time, it, u, v, w, w0, k2, wh, dwhdt, pads, fltr,
                   nfield, shape>>

\* wh_to_w()
wh_to_w ==
    /\ IF wh = None THEN
            /\ last' = Call("wh_to_w", None, "AttributeError", None, None)
            /\ UNCHANGED w
       ELSE /\ w' = Wh_to_w(wh)
            /\ last' = Call("wh_to_w", None, "ok", None, None)
    /\ UNCHANGED <<nx, ny, Re, dt, time, it, u, v, w0, k2, wh, psih, dwhdt, pads, fltr,
                   nfield, shape>>

\* w_to_wh()
w_to_wh ==
    /\ wh' = W_to_wh(w)
    /\ last' = Call("w_to_wh", None, "ok", None, None)
    /\ UNCHANGED <<nx, ny, Re, dt, time, it, u, v, w, w0, k2, psih, dwhdt, pads, fltr,
                   nfield, shape>>

(***************************************************************************)
(* Spec: init_solver() and init_field(...) as in __main__ and the tests,    *)
(* then update() and the diagnostics in any order.                         *)
(***************************************************************************)
(* Array shapes on a grid of any size: what numpy's slicing, broadcasting  *)
(* and boolean indexing make of the constructor's nx and ny                *)
(***************************************************************************)
\* the shape of a op b under numpy broadcasting (shapes of one or two axes), or
\* None when the operands cannot be broadcast together
Lead(sh) == IF Len(sh) = 2 THEN sh[1] ELSE 1

Trail(sh) == sh[Len(sh)]

Compatible(p, q) == p = q \/ p = 1 \/ q = 1

Broadcast(a, b) ==
    IF a = None \/ b = None THEN None
    ELSE IF Compatible(Lead(a), Lead(b)) /\ Compatible(Trail(a), Trail(b)) THEN
        IF Len(a) = 1 /\ Len(b) = 1 THEN <<IF a[1] = 1 THEN b[1] ELSE a[1]>>
        ELSE << IF Lead(a) = 1 THEN Lead(b) ELSE Lead(a),
                IF Trail(a) = 1 THEN Trail(b) ELSE Trail(a) >>
    ELSE None

\* target[...] = value: value must broadcast to the target's shape
Assignable(target, value) == value # None /\ Broadcast(target, value) = target

\* np.fft.rfft2 and np.fft.irfft2 on shapes
Rfft2Shape(sh) == <<sh[1], sh[2] \div 2 + 1>>

Irfft2Shape(sh) == <<sh[1], 2 * (sh[2] - 1)>>

\* int(self.pad * n)
PadInt(n) == (PadNum * n) \div PadDen

\* the number of True entries of padder: np.ones(mx) with
\* [int(nx/2):int(nx*(pad-0.5))] set to False
PadderTrue(n) ==
    LET mx == PadInt(n)
        lo == Min2(n \div 2, mx)
        hi == Min2(((2 * PadNum - PadDen) * n) \div (2 * PadDen), mx)
    IN  mx - (IF hi > lo THEN hi - lo ELSE 0)

\* __init__, lines 50-53
ConstructedShapes(n, m) ==
    [op |-> "__init__", outcome |-> "ok", field |-> "",
     w |-> <<n, m>>, w0 |-> <<n, NK(m)>>, k2 |-> None, wh |-> None, psih |-> None,
     dwhdt |-> None, mx |-> 0, mk |-> 0, padded |-> None]

\* init_solver, lines 64-82: kx[:nk] has min(nk, nx) entries and ky[:, np.newaxis]
\* has shape (ny, 1)
init_solver_shapes ==
    /\ shape # None
    /\ shape.op = "__init__"
    /\ shape' = [shape EXCEPT
            !.op = "init_solver", !.outcome = "ok",
            !.k2 = Broadcast(<<Min2(nk, nx)>>, <<ny, 1>>),
            !.wh = <<nx, nk>>, !.psih = <<nx, nk>>, !.dwhdt = <<nx, nk>>,
            !.mx = PadInt(nx), !.mk = PadInt(nk),
            !.w0 = shape.w]
    /\ UNCHANGED <<nx, ny, Re, dt, time, it, u, v, w, w0, k2, wh, psih, dwhdt, pads,
                   fltr, nfield, last>>

\* init_field, lines 104-113 and 123: the analytic fields are products and sums of
\* an (nx,) row and an (ny, 1) column; McWilliams1984 indexes an (nx, nk) array
\* with fk and ends with irfft2 of an array of k2's shape
FieldShape(name, sh) ==
    IF name \in {"TG", "SL"} THEN Broadcast(<<nx>>, <<ny, 1>>)
    ELSE IF sh.k2 = <<nx, nk>> THEN Irfft2Shape(sh.k2)
    ELSE None

init_field_shapes ==
    /\ shape # None
    /\ shape.op = "init_solver"
    /\ \E name \in {"TG", "SL", "MW84"} :
       \E wsh \in {FieldShape(name, shape)} :
        shape' = IF wsh = None
                 THEN [shape EXCEPT !.op = "init_field", !.field = name,
                                    !.outcome = "IndexError"]
                 ELSE [shape EXCEPT !.op = "init_field", !.field = name,
                                    !.outcome = "ok", !.w = wsh, !.wh = Rfft2Shape(wsh)]
    /\ UNCHANGED <<nx, ny, Re, dt, time, it, u, v, w, w0, k2, wh, psih, dwhdt, pads,
                   fltr, nfield, last>>

\* _get_psih, line 244: a boolean index must have the shape of the array it indexes
GetPsihFits(sh) == sh.wh = sh.k2 /\ sh.psih = sh.k2

\* _add_convection, lines 263-282: the four assignments into the (mx, mk) buffers,
\* and the assignment of the truncated product to dwhdt
ConvectionFits(sh) ==
    LET target == <<PadderTrue(nx), Min2(nk, sh.mk)>>
    IN  /\ Assignable(target, Broadcast(<<Min2(nk, nx)>>, sh.psih))
        /\ Assignable(target, Broadcast(<<ny, 1>>, sh.wh))
        /\ Assignable(target, Broadcast(<<ny, 1>>, sh.psih))
        /\ Assignable(target, Broadcast(<<Min2(nk, nx)>>, sh.wh))
        /\ Rfft2Shape(Irfft2Shape(<<sh.mx, sh.mk>>)) = <<sh.mx, sh.mk>>
        /\ Assignable(sh.dwhdt, target)

\* the grid on which j1*j2 - j3*j4 is formed: irfft2 of an (mx, mk) buffer
PaddedGrid(sh) == Irfft2Shape(<<sh.mx, sh.mk>>)

\* _add_diffusion, line 290, and the step in time, line 231
DiffusionFits(sh) == Assignable(sh.dwhdt, Broadcast(sh.k2, sh.wh))

\* update, lines 216-231, on shapes
update_shapes ==
    /\ shape # None
    /\ shape.op = "init_field"
    /\ shape.outcome = "ok"
    /\ shape' =
        IF ~GetPsihFits(shape) THEN
            [shape EXCEPT !.op = "update", !.outcome = "IndexError", !.w0 = shape.wh]
        ELSE IF ~ConvectionFits(shape) \/ ~DiffusionFits(shape) THEN
            [shape EXCEPT !.op = "update", !.outcome = "ValueError", !.w0 = shape.wh]
        ELSE
            [shape EXCEPT !.op = "update", !.outcome = "ok", !.w0 = shape.wh,
                          !.wh = Broadcast(shape.wh, shape.dwhdt),
                          !.padded = PaddedGrid(shape)]
    /\ UNCHANGED <<nx, ny, Re, dt, time, it, u, v, w, w0, k2, wh, psih, dwhdt, pads,
                   fltr, nfield, last>>

(***************************************************************************)
Init == Constructed({0, 1})

Next ==
    \/ init_solver(last.op = "__init__")
    \/ init_field(last.op = "init_solver", nfield, FieldInputs)
    \/ update(MaxIt, 1..DefaultS)
    \/ compute_spectrum
    \/ tke

Spec == Init /\ [][Next]_vars

(***************************************************************************)
(* FieldSpec: init_field, with one input of each kind, at any moment of a   *)
(* run, between steps (update(1)) and transforms.                          *)
(***************************************************************************)
FieldNext ==
    \/ init_solver(TRUE)
    \/ init_field(nfield < MaxField, nfield + 1, FieldKinds)
    \/ update(MaxStep, {1})
    \/ wh_to_w
    \/ w_to_wh

FieldInit == Constructed({1})

FieldSpec == FieldInit /\ [][FieldNext]_vars

(***************************************************************************)
(* ShapeSpec: Fluid(nx, ny, Re) for nx, ny in MinN..MaxN, then             *)
(* init_solver(), init_field(name), update(), on array shapes.             *)
(***************************************************************************)
ShapeInit ==
    /\ nx \in MinN..MaxN
    /\ ny \in MinN..MaxN
    /\ shape = ConstructedShapes(nx, ny)
    /\ Re = 1
    /\ dt = DtDefault
    /\ time = 0
    /\ it = 0
    /\ u = None /\ v = None /\ w = None /\ w0 = None
    /\ k2 = None /\ wh = None /\ psih = None /\ dwhdt = None
    /\ pads = None /\ fltr = None
    /\ nfield = 0
    /\ last = Call("__init__", None, "ok", None, None)

ShapeNext ==
    \/ init_solver_shapes
    \/ init_field_shapes
    \/ update_shapes

ShapeSpec == ShapeInit /\ [][ShapeNext]_vars

(***************************************************************************)
(* The claims                                                              *)
(***************************************************************************)
Modes == {<<i, j>> \in (0..(GridN - 1)) \X (0..(NK(GridN) - 1)) : TRUE}

\* the Poisson inversion of a spectral vorticity: wh / k2 where k2 # 0, zero at the
\* zero wavenumber
Invert(whA) ==
    Mat([i \in DOMAIN whA |-> [j \in DOMAIN whA[i] |->
        IF k2[i][j] # 0 THEN CScale(Inv(k2[i][j]), whA[i][j]) ELSE CZero]])

\* convection(invert(whc), whc) - ReI * k2 * whc
Tendency(whc) ==
    LET conv == AddConvection(CZeros(nx, nk), Invert(whc), whc, pads)
    IN  Mat([i \in DOMAIN whc |-> [j \in DOMAIN whc[i] |->
            CSub(conv[i][j], CScale(ReI * F(k2[i][j]), whc[i][j]))]])

\* the substages k, k - 1, ..., kmin from whc: each is w0A + (dtA / k) * Tendency
RECURSIVE SubstagesFrom(_, _, _, _, _)
SubstagesFrom(w0A, whc, dtA, k, kmin) ==
    IF k < kmin THEN whc
    ELSE LET t == Tendency(whc)
             next == Mat([i \in DOMAIN whc |-> [j \in DOMAIN whc[i] |->
                        CAdd(w0A[i][j], CScale(Div(FxToF(dtA), k), t[i][j]))]])
         IN  SubstagesFrom(w0A, next, dtA, k - 1, kmin)

\* the forward transform of a real (n, m) array, as the double sum
\* sum_{i,j} a[i,j] exp(-2 pi i (c i / n + b j / m)), for b = 0..m//2
Dft2(a) ==
    LET n == Rows(a)
        m == Cols(a)
    IN  Mat([c \in 0..(n - 1) |-> [b \in 0..(m \div 2) |->
            CSum([i \in 0..(n - 1) |->
                CSum([j \in 0..(m - 1) |->
                    CScale(a[i][j], CMul(Root(n, n - ((c * i) % n)),
                                         Root(m, m - ((b * j) % m))))], m)], n)]])

UpdateReturned == last.op = "update" /\ last.outcome = "ok"

\* C1: init_field called with a string that is none of the recognised names raises
\* UnsupportedFieldKind.
C1_UnknownNameRaisesUnsupportedFieldKind ==
    (last.op = "init_field" /\ last.arg.type = "str" /\ last.arg.name \notin KnownNames)
        => last.outcome = "UnsupportedFieldKind"

\* C2: init_field called with an array whose shape differs from (nx, ny) fails with
\* ShapeMismatch, and does not run the transform on the w held before the call.
C2_MismatchedArrayFailsWithShapeMismatch ==
    (last.op = "init_field" /\ last.arg.type = "ndarray"
                            /\ Shape(last.arg.array) # <<nx, ny>>)
        => (last.outcome = "ShapeMismatch" /\ wh = last.pre.wh)

\* C4: whenever init_field returns, whatever its input and whatever preceded it, wh
\* is the forward transform of the w held at that moment, and w is its inverse
\* transform.
C4_InitFieldLeavesWhTheTransformOfW ==
    (last.op = "init_field" /\ last.outcome = "ok")
        => (wh = Dft2(w) /\ Wh_to_w(wh) = w)

\* C4, its case: init_field returns without replacing w (an array of another shape)
\* after a step has moved wh away from the transform of w.
C4_Witness ==
    /\ last.op = "init_field" /\ last.outcome = "ok"
    /\ last.arg.type = "ndarray" /\ Shape(last.arg.array) # <<nx, ny>>
    /\ it = 1
    /\ last.pre.wh # None /\ last.pre.wh # wh
    /\ wh # CZeros(nx, nk)

\* C5: the zero-wavenumber entry of psih is zero in every state; right after a
\* Poisson inversion (the one of _compute_spectrum, and the single one of update(1))
\* k2 * psih equals the inverted wh at every mode where k2 # 0.
C5_PoissonInversion ==
    /\ psih # None =>
        \A ij \in Modes : k2[ij[1]][ij[2]] = 0 => psih[ij[1]][ij[2]] = CZero
    /\ (last.op = "_compute_spectrum" /\ last.outcome = "ok") =>
        \A ij \in Modes : k2[ij[1]][ij[2]] # 0 =>
            CScale(F(k2[ij[1]][ij[2]]), psih[ij[1]][ij[2]]) = wh[ij[1]][ij[2]]
    /\ (UpdateReturned /\ last.arg = 1) =>
        \A ij \in Modes : k2[ij[1]][ij[2]] # 0 =>
            CScale(F(k2[ij[1]][ij[2]]), psih[ij[1]][ij[2]]) = last.pre.wh[ij[1]][ij[2]]

\* C5, its case: an inversion of a wh whose zero-wavenumber entry is not zero, after
\* a step.
C5_Witness ==
    /\ last.op = "_compute_spectrum" /\ last.outcome = "ok"
    /\ it > 0
    /\ wh[0][0] # CZero
    /\ psih # CZeros(nx, nk)

\* C6: update() advances it by one and time by the dt held on entry, its substages use
\* that dt, and dt is recomputed once, from the velocities of the stored psih, after
\* time was advanced; the first step's dt is the constructor's.
C6_StepUsesEntryDt ==
    /\ it = 0 => (dt = DtDefault /\ time = 0)
    /\ it > 0 => dt = CflDt(u, v)
    /\ UpdateReturned =>
        /\ it = last.pre.it + 1
        /\ time = last.pre.time + last.pre.dt
        /\ last.pre.it = 0 => time = DtDefault
        /\ wh = SubstagesFrom(last.pre.wh, last.pre.wh, last.pre.dt, last.arg, 1)
        /\ u = GetU(psih) /\ v = GetV(psih)

\* C6, its case: the second step, entered with a dt that the first step recomputed
\* and left with another one.
C6_Witness ==
    /\ UpdateReturned
    /\ it = 2
    /\ last.pre.dt # DtDefault
    /\ dt # last.pre.dt
    /\ wh # last.pre.wh

\* C8: update(s) binds w0 to the wh held on entry, and the substages k = s, ..., 1
\* each set wh = w0 + (dt/k) * (convection(invert(wh_cur), wh_cur) - ReI*k2*wh_cur):
\* no earlier value of the accumulator contributes and no filter is applied.
C8_SubstageFormula ==
    UpdateReturned =>
        /\ w0 = last.pre.wh
        /\ wh = SubstagesFrom(w0, w0, last.pre.dt, last.arg, 1)
        /\ dwhdt = Tendency(SubstagesFrom(w0, w0, last.pre.dt, last.arg, 2))

\* C8, its case: a second step of three substages, entered with an accumulator that
\* the first step left non-zero, on a field that the convection moves.
C8_Witness ==
    /\ UpdateReturned
    /\ it = 2
    /\ last.arg = DefaultS
    /\ wh # last.pre.wh
    /\ AddConvection(dwhdt, Invert(wh), wh, pads) # CZeros(nx, nk)

\* C10: when update() returns, psih is the inversion of the wh that entered the last
\* substage, and the new dt is computed from that psih; tke() reads the stored psih
\* and init_field leaves psih as it was.
C10_PsihOneSubstageBehind ==
    /\ UpdateReturned =>
        /\ psih = Invert(SubstagesFrom(last.pre.wh, last.pre.wh, last.pre.dt, last.arg, 2))
        /\ dt = CflDt(GetU(psih), GetV(psih))
    /\ (last.op = "tke" /\ last.outcome = "ok") =>
        (last.ret = Tke(k2, psih) /\ psih = last.pre.psih)
    /\ (last.op = "init_field" /\ last.pre.psih # None) => psih = last.pre.psih

\* C10, its case: tke() after a step returns the energy of a stream function that is
\* not the inversion of the current wh.
C10_Witness ==
    /\ last.op = "tke" /\ last.outcome = "ok"
    /\ it > 0
    /\ psih # Invert(wh)
    /\ last.ret # Tke(k2, Invert(wh))

\* C7: on every grid, after init_solver and init_field of a named analytic field, w
\* has shape (nx, ny) and wh, psih, dwhdt and k2 have shape (nx, nk).
C7_ShapesOnEveryGrid ==
    (shape.op = "init_field" /\ shape.field \in {"TG", "SL"}) =>
        /\ shape.outcome = "ok"
        /\ shape.w = <<nx, ny>>
        /\ shape.wh = <<nx, nk>>
        /\ shape.psih = <<nx, nk>>
        /\ shape.dwhdt = <<nx, nk>>
        /\ shape.k2 = <<nx, nk>>

\* C9: on every grid, the convection products are formed on a grid of floor(pad*nx) by
\* pad*ny points, so that pad**2 is the ratio of padded to unpadded point counts.
C9_PaddedGridMatchesPadSquared ==
    (shape.op = "update" /\ shape.outcome = "ok") =>
        /\ shape.padded[1] = PadInt(nx)
        /\ PadDen * shape.padded[2] = PadNum * ny
        /\ PadDen * PadDen * shape.padded[1] * shape.padded[2] = PadNum * PadNum * nx * ny

====
